---- MODULE Spec2Model ----
(***************************************************************************)
(* Model of tools/foozzie/v8_foozzie.py, the V8 correctness fuzzer         *)
(* launcher: argument validation, the ordered bailout pipeline of main(),  *)
(* the report templates and the top-level exception handler.               *)
(*                                                                         *)
(* A Python string is a sequence of atoms (TLA+ strings).  Strings whose   *)
(* characters matter (paths, suppression labels, the seed) are spelled one *)
(* character per atom; flags and literal template text are one atom each.  *)
(***************************************************************************)
EXTENDS Integers, Sequences, FiniteSets, TLC

VARIABLES argv, fs, options, pc, exc, calls, launches, outputs, metadata,
          difference, out, result, exit_code,
          run,   \* number of the invocation: 1, or 2 for a repeated one
          prev   \* what the first invocation was answered and produced

vars == <<argv, fs, options, pc, exc, calls, launches, outputs, metadata,
          difference, out, result, exit_code, run, prev>>

\* ---------------------------------------------------------------- bounds
\* Magnitude of the random seeds tried.
MaxSeed == 12

\* ------------------------------------------------------- Python helpers
\* Python's None, distinct from every string of the model.
None == <<"None">>

\* A local variable that has not been assigned yet.
Unbound == [unbound |-> TRUE]

Bound(x) == "unbound" \notin DOMAIN x

\* x or d, for x a string or None.
PyOr(x, d) == IF x = None \/ x = <<>> THEN d ELSE x

IsSpace(c) == c \in {" ", "\t", "\n"}

RECURSIVE lstrip(_)
lstrip(s) == IF s # <<>> /\ IsSpace(Head(s)) THEN lstrip(Tail(s)) ELSE s

RECURSIVE rstrip(_)
rstrip(s) ==
  IF s # <<>> /\ IsSpace(s[Len(s)]) THEN rstrip(SubSeq(s, 1, Len(s) - 1)) ELSE s

\* str.strip()
strip(s) == rstrip(lstrip(s))

startswith(s, p) == Len(s) >= Len(p) /\ SubSeq(s, 1, Len(p)) = p

endswith(s, p) == Len(s) >= Len(p) /\ SubSeq(s, Len(s) - Len(p) + 1, Len(s)) = p

Digit(d) == <<"0", "1", "2", "3", "4", "5", "6", "7", "8", "9">>[d + 1]

RECURSIVE NatToStr(_)
NatToStr(n) == IF n < 10 THEN <<Digit(n)>>
               ELSE NatToStr(n \div 10) \o <<Digit(n % 10)>>

\* str(n) for an int n.
str(n) == IF n < 0 THEN <<"-">> \o NatToStr(0 - n) ELSE NatToStr(n)

\* sep.join(list)
RECURSIVE join(_, _)
join(sep, l) == IF l = <<>> THEN <<>>
                ELSE IF Len(l) = 1 THEN l[1]
                ELSE l[1] \o sep \o join(sep, Tail(l))

\* s.split('/')
RECURSIVE SplitFrom(_, _, _)
SplitFrom(s, i, cur) ==
  IF i > Len(s) THEN <<cur>>
  ELSE IF s[i] = "/" THEN <<cur>> \o SplitFrom(s, i + 1, <<>>)
  ELSE SplitFrom(s, i + 1, Append(cur, s[i]))

split(s) == SplitFrom(s, 1, <<>>)

\* ------------------------------------------------------------- os.path
\* os.getcwd() of the launcher process.
Cwd == <<"/", "w">>

DotDot == <<".", ".">>

RECURSIVE NormComps(_, _, _)
NormComps(comps, initial_slashes, new_comps) ==
  IF comps = <<>> THEN new_comps
  ELSE LET comp == Head(comps) IN
    IF comp = <<>> \/ comp = <<".">>
    THEN NormComps(Tail(comps), initial_slashes, new_comps)
    ELSE IF comp # DotDot
            \/ (initial_slashes = 0 /\ new_comps = <<>>)
            \/ (new_comps # <<>> /\ new_comps[Len(new_comps)] = DotDot)
    THEN NormComps(Tail(comps), initial_slashes, Append(new_comps, comp))
    ELSE IF new_comps # <<>>
    THEN NormComps(Tail(comps), initial_slashes,
                   SubSeq(new_comps, 1, Len(new_comps) - 1))
    ELSE NormComps(Tail(comps), initial_slashes, new_comps)

\* posixpath.normpath
normpath(path) ==
  IF path = <<>> THEN <<".">>
  ELSE LET initial_slashes ==
             IF ~startswith(path, <<"/">>) THEN 0
             ELSE IF startswith(path, <<"/", "/">>)
                     /\ ~startswith(path, <<"/", "/", "/">>) THEN 2
             ELSE 1
           body == join(<<"/">>, NormComps(split(path), initial_slashes, <<>>))
           full == (IF initial_slashes = 0 THEN <<>>
                    ELSE IF initial_slashes = 1 THEN <<"/">>
                    ELSE <<"/", "/">>) \o body
       IN IF full = <<>> THEN <<".">> ELSE full

\* posixpath.join(a, b)
pathjoin(a, b) ==
  IF startswith(b, <<"/">>) THEN b
  ELSE IF a = <<>> \/ endswith(a, <<"/">>) THEN a \o b
  ELSE a \o <<"/">> \o b

\* os.path.abspath
abspath(path) ==
  normpath(IF startswith(path, <<"/">>) THEN path ELSE pathjoin(Cwd, path))

RECURSIVE rstripslash(_)
rstripslash(s) ==
  IF s # <<>> /\ s[Len(s)] = "/" THEN rstripslash(SubSeq(s, 1, Len(s) - 1))
  ELSE s

RECURSIVE rfindslash(_, _)
rfindslash(s, i) == IF i = 0 THEN 0 ELSE IF s[i] = "/" THEN i
                    ELSE rfindslash(s, i - 1)

\* os.path.dirname
dirname(p) ==
  LET head == SubSeq(p, 1, rfindslash(p, Len(p)))
  IN IF head # <<>> /\ rstripslash(head) # <<>> THEN rstripslash(head) ELSE head

\* os.path.basename
basename(p) == SubSeq(p, rfindslash(p, Len(p)) + 1, Len(p))

\* ------------------------------------------------------ module constants
CONFIGS ==
  [default            |-> <<>>,
   validate_asm       |-> << <<"--validate-asm">> >>,
   fullcode           |-> << <<"--nocrankshaft">>, <<"--turbo-filter=~">> >>,
   noturbo            |-> << <<"--turbo-filter=~">>, <<"--noturbo-asm">> >>,
   noturbo_opt        |-> << <<"--always-opt">>, <<"--turbo-filter=~">>,
                             <<"--noturbo-asm">> >>,
   ignition_staging   |-> << <<"--ignition-staging">> >>,
   ignition_turbo     |-> << <<"--ignition-staging">>, <<"--turbo">> >>,
   ignition_turbo_opt |-> << <<"--ignition-staging">>, <<"--turbo">>,
                             <<"--always-opt">> >>]

\* name in CONFIGS
InConfigs(name) == Len(name) = 1 /\ name[1] \in DOMAIN CONFIGS

TIMEOUT == 3

RETURN_PASS == 0

RETURN_FAIL == 2

\* Directory of the launcher script.
BASE_PATH == <<"/", "f">>

PREAMBLE == << pathjoin(BASE_PATH, <<"v8_mock.js">>),
               pathjoin(BASE_PATH, <<"v8_suppressions.js">>) >>

FLAGS == << <<"--abort_on_stack_overflow">>, <<"--expose-gc">>,
            <<"--allow-natives-syntax">>, <<"--invoke-weak-callbacks">>,
            <<"--omit-quit">>, <<"--es-staging">> >>

SUPPORTED_ARCHS == << <<"ia32">>, <<"x64">>, <<"arm">>, <<"arm64">> >>

\* x in list
InList(x, l) == \E i \in DOMAIN l : l[i] = x

\* Template text is a sequence of tokens: literal text, or a %(key)s field.
Lit(t) == [tag |-> "lit", val |-> <<t>>]

Fld(k) == [tag |-> k, val |-> <<>>]

FAILURE_HEADER_TEMPLATE ==
  << Lit("#\n"),
     Lit("# V8 correctness failure\n"),
     Lit("# V8 correctness configs: "), Fld("configs"), Lit("\n"),
     Lit("# V8 correctness sources: "), Fld("sources"), Lit("\n"),
     Lit("# V8 correctness suppression: "), Fld("suppression"), Lit("\n") >>

\* FAILURE_TEMPLATE with the first End marker carrying the second label.
FAILURE_TEMPLATE_mislabelled ==
  FAILURE_HEADER_TEMPLATE \o
  << Lit("#\n"),
     Lit("# CHECK\n"),
     Lit("#\n"),
     Lit("# Compared "), Fld("first_config_label"), Lit(" with "),
       Fld("second_config_label"), Lit("\n"),
     Lit("#\n"),
     Lit("# Flags of "), Fld("first_config_label"), Lit(":\n"),
     Fld("first_config_flags"), Lit("\n"),
     Lit("# Flags of "), Fld("second_config_label"), Lit(":\n"),
     Fld("second_config_flags"), Lit("\n"),
     Lit("#\n"),
     Lit("# Difference:\n"),
     Fld("difference"), Lit("\n"),
     Lit("#\n"),
     Lit("### Start of configuration "), Fld("first_config_label"), Lit(":\n"),
     Fld("first_config_output"), Lit("\n"),
     Lit("### End of configuration "), Fld("second_config_label"), Lit("\n"),
     Lit("#\n"),
     Lit("### Start of configuration "), Fld("second_config_label"), Lit(":\n"),
     Fld("second_config_output"), Lit("\n"),
     Lit("### End of configuration "), Fld("second_config_label"), Lit("\n") >>

FAILURE_TEMPLATE ==
  FAILURE_HEADER_TEMPLATE \o
  << Lit("#\n"),
     Lit("# CHECK\n"),
     Lit("#\n"),
     Lit("# Compared "), Fld("first_config_label"), Lit(" with "),
       Fld("second_config_label"), Lit("\n"),
     Lit("#\n"),
     Lit("# Flags of "), Fld("first_config_label"), Lit(":\n"),
     Fld("first_config_flags"), Lit("\n"),
     Lit("# Flags of "), Fld("second_config_label"), Lit(":\n"),
     Fld("second_config_flags"), Lit("\n"),
     Lit("#\n"),
     Lit("# Difference:\n"),
     Fld("difference"), Lit("\n"),
     Lit("#\n"),
     Lit("### Start of configuration "), Fld("first_config_label"), Lit(":\n"),
     Fld("first_config_output"), Lit("\n"),
     Lit("### End of configuration "), Fld("first_config_label"), Lit("\n"),
     Lit("#\n"),
     Lit("### Start of configuration "), Fld("second_config_label"), Lit(":\n"),
     Fld("second_config_output"), Lit("\n"),
     Lit("### End of configuration "), Fld("second_config_label"), Lit("\n") >>

\* template % dict
Format(template, d) ==
  [i \in DOMAIN template |->
     IF template[i].tag = "lit" THEN template[i]
     ELSE [tag |-> template[i].tag, val |-> d[template[i].tag]]]

\* ------------------------------------------------------------ exceptions
NoExc == [type |-> "None", at |-> 0]

Raise(type, line) == [type |-> type, at |-> line]

\* --------------------------------------------------- command-line inputs
Seeds == {0 - MaxSeed, MaxSeed}

Archs == { <<"x64">>, <<"ia32">>, <<"mips">> }

ConfigNames == { <<"default">>, <<"fullcode">>, <<"bogus">> }

FirstD8s == { <<"d", "8">>, <<"/", "o", "/", "d", "8", ".", "p", "y">> }

SecondD8s == { None, <<>>, <<"/", "w", "/", "d", "8">>,
               <<"/", "o", "/", ".", "/", "d", "8", ".", "p", "y">>,
               <<"/", "a", "/", "d", "8">> }

Testcase == <<"/", "t", "/", "f", "u", "z", "z", "-", "1", ".", "j", "s">>

\* The namespace argparse builds when no option is given.
DefaultArgv ==
  [usage_ok |-> TRUE, random_seed |-> MaxSeed,
   first_arch |-> <<"x64">>, second_arch |-> <<"x64">>,
   first_config |-> <<"fullcode">>, second_config |-> <<"fullcode">>,
   first_d8 |-> <<"d", "8">>, second_d8 |-> None, testcase |-> Testcase]

\* Command lines: those argparse accepts, and one it rejects.
ArgvSet ==
  [usage_ok : {TRUE}, random_seed : Seeds,
   first_arch : Archs, second_arch : Archs,
   first_config : ConfigNames, second_config : ConfigNames,
   first_d8 : FirstD8s, second_d8 : SecondD8s, testcase : {Testcase}]
  \cup {[DefaultArgv EXCEPT !.usage_ok = FALSE]}

\* What the file system answers to the probes of parse_args.
FsViews ==
  [testcase_isfile : BOOLEAN, resources_exists : BOOLEAN,
   resources : { <<>>, << <<"meta.json">> >>,
                 << <<"meta.json">>, <<"other.json">> >> },
   metadata_exists : BOOLEAN,
   first_d8_exists : BOOLEAN, second_d8_exists : BOOLEAN]

NoOptions == [unbound |-> TRUE]

\* The check of lines 107-109 with the second operand mistyped.
SaneComparison_mistyped(a) ==
  a.first_arch # a.second_arch \/ a.first_config # a.second_arch

\* Lines 107-109: the comparison differs in architecture or configuration.
SaneComparison(a) ==
  a.first_arch # a.second_arch \/ a.first_config # a.second_config

\* Line 135: options.second_d8 or options.first_d8
DefaultSecondD8(a) == PyOr(a.second_d8, a.first_d8)

\* The check of lines 148-149 with its condition inverted.
DistinctExecutables_inverted(first_arch, second_arch, first_d8, second_d8) ==
  first_arch = second_arch => first_d8 # second_d8

\* Lines 148-149: different architectures need different executables.
DistinctExecutables(first_arch, second_arch, first_d8, second_d8) ==
  first_arch # second_arch => first_d8 # second_d8

\* Lines 120-132: the metadata path named by the resources file.
MetaDataPath(testcase, resources) ==
  LET resources_path ==
        pathjoin(dirname(testcase),
                 <<"resources">> \o SubSeq(basename(testcase), 5,
                                           Len(basename(testcase))))
  IN pathjoin(dirname(resources_path), resources[1])

\* The checks of parse_args without the one for the metadata file.
Assertions_no_metadata_check(a, f) ==
  << [ok |-> a.usage_ok, type |-> "SystemExit", line |-> 104],
     [ok |-> SaneComparison(a), type |-> "AssertionError", line |-> 107],
     [ok |-> InList(a.first_arch, SUPPORTED_ARCHS),
      type |-> "AssertionError", line |-> 110],
     [ok |-> InList(a.second_arch, SUPPORTED_ARCHS),
      type |-> "AssertionError", line |-> 111],
     [ok |-> InConfigs(a.first_config), type |-> "AssertionError", line |-> 112],
     [ok |-> InConfigs(a.second_config), type |-> "AssertionError", line |-> 113],
     [ok |-> f.testcase_isfile, type |-> "AssertionError", line |-> 116],
     [ok |-> f.resources_exists, type |-> "AssertionError", line |-> 123],
     [ok |-> Len(f.resources) = 1, type |-> "AssertionError", line |-> 128],
     [ok |-> f.first_d8_exists, type |-> "AssertionError", line |-> 142],
     [ok |-> f.second_d8_exists, type |-> "AssertionError", line |-> 143],
     [ok |-> DistinctExecutables(a.first_arch, a.second_arch,
                                 abspath(a.first_d8),
                                 abspath(DefaultSecondD8(a))),
      type |-> "AssertionError", line |-> 149] >>

\* The checks of parse_args in program order, each with its line.
Assertions(a, f) ==
  << [ok |-> a.usage_ok, type |-> "SystemExit", line |-> 104],
     [ok |-> SaneComparison(a), type |-> "AssertionError", line |-> 107],
     [ok |-> InList(a.first_arch, SUPPORTED_ARCHS),
      type |-> "AssertionError", line |-> 110],
     [ok |-> InList(a.second_arch, SUPPORTED_ARCHS),
      type |-> "AssertionError", line |-> 111],
     [ok |-> InConfigs(a.first_config), type |-> "AssertionError", line |-> 112],
     [ok |-> InConfigs(a.second_config), type |-> "AssertionError", line |-> 113],
     [ok |-> f.testcase_isfile, type |-> "AssertionError", line |-> 116],
     [ok |-> f.resources_exists, type |-> "AssertionError", line |-> 123],
     [ok |-> Len(f.resources) = 1, type |-> "AssertionError", line |-> 128],
     [ok |-> f.metadata_exists, type |-> "AssertionError", line |-> 131],
     [ok |-> f.first_d8_exists, type |-> "AssertionError", line |-> 142],
     [ok |-> f.second_d8_exists, type |-> "AssertionError", line |-> 143],
     [ok |-> DistinctExecutables(a.first_arch, a.second_arch,
                                 abspath(a.first_d8),
                                 abspath(DefaultSecondD8(a))),
      type |-> "AssertionError", line |-> 149] >>

\* parse_args(): the options returned, or the exception of the first check
\* that fails.
parse_args(a, f) ==
  LET checks == Assertions(a, f)
      failed == {i \in DOMAIN checks : ~checks[i].ok}
  IN IF failed # {}
     THEN LET i == CHOOSE i \in failed : \A j \in failed : i <= j
          IN [options |-> NoOptions,
              exc |-> Raise(checks[i].type, checks[i].line)]
     ELSE [options |-> [random_seed |-> a.random_seed,
                        first_arch |-> a.first_arch,
                        second_arch |-> a.second_arch,
                        first_config |-> a.first_config,
                        second_config |-> a.second_config,
                        first_d8 |-> abspath(a.first_d8),
                        second_d8 |-> abspath(DefaultSecondD8(a)),
                        testcase |-> a.testcase,
                        meta_data_path |->
                          MetaDataPath(a.testcase, f.resources)],
           exc |-> NoExc]

\* The file system answers the same for one path asked twice.
FsFor(a) ==
  {f \in FsViews :
     abspath(a.first_d8) = abspath(DefaultSecondD8(a))
       => f.first_d8_exists = f.second_d8_exists}

\* ---------------------------------------------------- the collaborators
\* Values a suppression predicate can return: None, empty, blank, a label,
\* a label with surrounding white space.
SuppressionResults ==
  { None, <<>>, <<" ">>, <<"b", "u", "g">>, <<" ", "b", "u", "g", "\n">> }

Stdouts == { <<"[A]\n">>, <<"[B]\n">> }

\* Results of v8_commands.Execute.
Outputs == [timed_out : BOOLEAN, crashed : BOOLEAN, stdout : Stdouts]

\* Contents json.load can return for the metadata file.
MetadataFiles == { [sources |-> << <<"a.js">>, <<"b.js">> >>],
                   [comment |-> << <<"no sources">> >>] }

\* Values suppress.diff can return for two outputs: nothing for equal
\* outputs, nothing or a description for different ones.
DiffResults(output1, output2) ==
  IF output1 = output2 THEN { None, <<>> }
  ELSE { None, <<>>, <<"line 1 differs">> }

\* Source text of the test case file.
TestcaseSource == <<"print(42);">>

\* The first eight hex digits of a sha1, kept symbolic.
hsh(x) == <<"sha1[:8](">> \o x \o <<")">>

SysExecutable == <<"/", "u", "/", "python">>

Call(fn, args, ret) == [fn |-> fn, args |-> args, ret |-> ret]

\* Marks a call that raised instead of returning.
Raised == <<"<raised>">>

NotYet == 0 - 1

\* ------------------------------------------------------------------ Init
Init ==
  /\ argv \in ArgvSet
  /\ fs = Unbound
  /\ options = NoOptions
  /\ pc = "start"
  /\ exc = NoExc
  /\ calls = <<>>
  /\ launches = <<>>
  /\ outputs = <<Unbound, Unbound>>
  /\ metadata = Unbound
  /\ difference = None
  /\ out = <<>>
  /\ result = NotYet
  /\ exit_code = NotYet
  /\ run = 1
  /\ prev = Unbound

\* main() line 189: options = parse_args()
ParseArgs ==
  /\ pc = "start"
  /\ \E f \in FsFor(argv) :
       LET r == parse_args(argv, f) IN
         /\ fs' = f
         /\ options' = r.options
         /\ exc' = r.exc
         /\ pc' = IF r.exc = NoExc THEN "get_suppression" ELSE "raised"
  /\ UNCHANGED <<run, prev>>
  /\ UNCHANGED <<argv, calls, launches, outputs, metadata, difference, out,
                 result, exit_code>>

\* main() lines 192-195: suppress = v8_suppressions.get_suppression(...)
GetSuppression ==
  /\ pc = "get_suppression"
  /\ LET args == <<options.first_arch, options.first_config,
                   options.second_arch, options.second_config>> IN
     \/ /\ calls' = Append(calls, Call("get_suppression", args, <<"suppress">>))
        /\ pc' = "test_pattern_bailout"
        /\ exc' = exc
     \/ /\ calls' = Append(calls, Call("get_suppression", args, Raised))
        /\ pc' = "raised"
        /\ exc' = Raise("Exception", 192)
  /\ UNCHANGED <<run, prev>>
  /\ UNCHANGED <<argv, fs, options, launches, outputs, metadata, difference, out,
                 result, exit_code>>

\* print FAILURE_HEADER_TEMPLATE % dict(configs='', sources='', suppression=bug)
FailureHeader(bug) ==
  Format(FAILURE_HEADER_TEMPLATE,
         [configs |-> <<>>, sources |-> <<>>, suppression |-> bug])

\* test_pattern_bailout that does not strip the predicate's result.
test_pattern_bailout_nostrip(ignored) ==
  LET bug == PyOr(ignored, <<>>) IN
    IF bug # <<>> THEN [printed |-> <<FailureHeader(bug)>>, ret |-> TRUE]
    ELSE [printed |-> <<>>, ret |-> FALSE]

\* test_pattern_bailout that prints the header but reports no bailout.
test_pattern_bailout_fallthrough(ignored) ==
  LET bug == strip(PyOr(ignored, <<>>)) IN
    IF bug # <<>> THEN [printed |-> <<FailureHeader(bug)>>, ret |-> FALSE]
    ELSE [printed |-> <<>>, ret |-> FALSE]

\* test_pattern_bailout(testcase, ignore_fun): the text printed (or None)
\* and the value returned, for the value ignore_fun returned.
test_pattern_bailout(ignored) ==
  LET bug == strip(PyOr(ignored, <<>>)) IN
    IF bug # <<>> THEN [printed |-> <<FailureHeader(bug)>>, ret |-> TRUE]
    ELSE [printed |-> <<>>, ret |-> FALSE]

\* main() lines 197-198
TestPatternBailout ==
  /\ pc = "test_pattern_bailout"
  /\ \/ \E r \in SuppressionResults :
          LET b == test_pattern_bailout(r) IN
            /\ calls' = Append(calls, Call("ignore", <<TestcaseSource>>, r))
            /\ out' = out \o b.printed
            /\ IF b.ret
               THEN result' = RETURN_FAIL /\ pc' = "returned"
               ELSE result' = result /\ pc' = "load_metadata"
            /\ exc' = exc
     \/ \* open(testcase) fails
        /\ exc' = Raise("IOError", 156)
        /\ pc' = "raised"
        /\ UNCHANGED <<calls, out, result>>
     \/ \* ignore_fun raises
        /\ calls' = Append(calls, Call("ignore", <<TestcaseSource>>, Raised))
        /\ exc' = Raise("Exception", 157)
        /\ pc' = "raised"
        /\ UNCHANGED <<out, result>>
  /\ UNCHANGED <<run, prev>>
  /\ UNCHANGED <<argv, fs, options, launches, outputs, metadata, difference,
                 exit_code>>

\* main() lines 201-202: metadata = json.load(f)
LoadMetadata ==
  /\ pc = "load_metadata"
  /\ \/ \E m \in MetadataFiles :
          /\ metadata' = m
          /\ pc' = "run1"
          /\ exc' = exc
     \/ /\ exc' \in {Raise("IOError", 201), Raise("ValueError", 202)}
        /\ pc' = "raised"
        /\ metadata' = metadata
  /\ UNCHANGED <<run, prev>>
  /\ UNCHANGED <<argv, fs, options, calls, launches, outputs, difference, out,
                 result, exit_code>>

\* main() line 204 with a seed that advances with every invocation.
common_flags_advancing_seed(opts) ==
  FLAGS \o << <<"--random-seed">>, str(opts.random_seed + run - 1) >>

\* main() line 204
common_flags(opts) == FLAGS \o << <<"--random-seed">>, str(opts.random_seed) >>

\* main() lines 205-206
config_flags(opts, side) ==
  common_flags(opts) \o
  CONFIGS[(IF side = 1 THEN opts.first_config ELSE opts.second_config)[1]]

\* run_d8 with the preamble scripts after the test case.
run_d8_preamble_last(opts, d8, flags) ==
  LET args == <<d8>> \o flags \o <<opts.testcase>> \o PREAMBLE IN
    [args |-> IF endswith(d8, <<".", "p", "y">>)
              THEN <<SysExecutable>> \o args ELSE args,
     cwd |-> dirname(opts.testcase),
     timeout |-> TIMEOUT]

\* run_d8(d8, config_flags): the arguments of v8_commands.Execute
run_d8(opts, d8, flags) ==
  LET args == <<d8>> \o flags \o PREAMBLE \o <<opts.testcase>> IN
    [args |-> IF endswith(d8, <<".", "p", "y">>)
              THEN <<SysExecutable>> \o args ELSE args,
     cwd |-> dirname(opts.testcase),
     timeout |-> TIMEOUT]

\* main() lines 219 and 227: run one side
Run(side) ==
  /\ pc = (IF side = 1 THEN "run1" ELSE "run2")
  /\ launches' =
       Append(launches,
              run_d8(options,
                     IF side = 1 THEN options.first_d8 ELSE options.second_d8,
                     config_flags(options, side)))
  /\ \/ \E o \in Outputs :
          /\ outputs' = [outputs EXCEPT ![side] = o]
          /\ pc' = (IF side = 1 THEN "pass_bailout1" ELSE "pass_bailout2")
          /\ exc' = exc
     \/ /\ exc' = Raise("Exception", IF side = 1 THEN 219 ELSE 227)
        /\ pc' = "raised"
        /\ outputs' = outputs
  /\ UNCHANGED <<run, prev>>
  /\ UNCHANGED <<argv, fs, options, calls, metadata, difference, out, result,
                 exit_code>>

\* pass_bailout that tests for a crash before the timeout.
pass_bailout_crash_first(output, step_number) ==
  IF output.crashed
  THEN [printed |-> << << Lit("# V8 correctness - C-R-A-S-H "),
                          [tag |-> "%d", val |-> str(step_number)] >> >>,
        ret |-> TRUE]
  ELSE IF output.timed_out
  THEN [printed |-> << << Lit("# V8 correctness - T-I-M-E-O-U-T "),
                          [tag |-> "%d", val |-> str(step_number)] >> >>,
        ret |-> TRUE]
  ELSE [printed |-> <<>>, ret |-> FALSE]

\* pass_bailout that forgets the crash case.
pass_bailout_timeout_only(output, step_number) ==
  IF output.timed_out
  THEN [printed |-> << << Lit("# V8 correctness - T-I-M-E-O-U-T "),
                          [tag |-> "%d", val |-> str(step_number)] >> >>,
        ret |-> TRUE]
  ELSE [printed |-> <<>>, ret |-> FALSE]

\* pass_bailout(output, step_number)
pass_bailout(output, step_number) ==
  IF output.timed_out
  THEN [printed |-> << << Lit("# V8 correctness - T-I-M-E-O-U-T "),
                          [tag |-> "%d", val |-> str(step_number)] >> >>,
        ret |-> TRUE]
  ELSE IF output.crashed
  THEN [printed |-> << << Lit("# V8 correctness - C-R-A-S-H "),
                          [tag |-> "%d", val |-> str(step_number)] >> >>,
        ret |-> TRUE]
  ELSE [printed |-> <<>>, ret |-> FALSE]

\* main() lines 222-223 and 230-231
PassBailout(side) ==
  /\ pc = (IF side = 1 THEN "pass_bailout1" ELSE "pass_bailout2")
  /\ LET b == pass_bailout(outputs[side], side) IN
       /\ out' = out \o b.printed
       /\ IF b.ret
          THEN result' = RETURN_PASS /\ pc' = "returned"
          ELSE /\ result' = result
               /\ pc' = (IF side = 1 THEN "fail_bailout1" ELSE "fail_bailout2")
  /\ UNCHANGED <<run, prev>>
  /\ UNCHANGED <<argv, fs, options, exc, calls, launches, outputs, metadata,
                 difference, exit_code>>

\* fail_bailout that prints the header but reports no bailout.
fail_bailout_fallthrough(ignored) ==
  LET bug == strip(PyOr(ignored, <<>>)) IN
    IF bug # <<>> THEN [printed |-> <<FailureHeader(bug)>>, ret |-> FALSE]
    ELSE [printed |-> <<>>, ret |-> FALSE]

\* fail_bailout that does not strip the predicate's result.
fail_bailout_nostrip(ignored) ==
  LET bug == PyOr(ignored, <<>>) IN
    IF bug # <<>> THEN [printed |-> <<FailureHeader(bug)>>, ret |-> TRUE]
    ELSE [printed |-> <<>>, ret |-> FALSE]

\* fail_bailout(output, ignore_by_output_fun), for the value the predicate
\* returned
fail_bailout(ignored) ==
  LET bug == strip(PyOr(ignored, <<>>)) IN
    IF bug # <<>> THEN [printed |-> <<FailureHeader(bug)>>, ret |-> TRUE]
    ELSE [printed |-> <<>>, ret |-> FALSE]

\* The side-1 predicate handed to fail_bailout for both sides.
OutputPredicate_first_only(side) == "ignore_by_output1"

\* The predicate main() hands to fail_bailout for a side.
OutputPredicate(side) ==
  IF side = 1 THEN "ignore_by_output1" ELSE "ignore_by_output2"

\* main() lines 224-225 and 232-233
FailBailout(side) ==
  /\ pc = (IF side = 1 THEN "fail_bailout1" ELSE "fail_bailout2")
  /\ \/ \E r \in SuppressionResults :
          LET b == fail_bailout(r) IN
            /\ calls' = Append(calls, Call(OutputPredicate(side),
                                           <<outputs[side].stdout>>, r))
            /\ out' = out \o b.printed
            /\ IF b.ret
               THEN result' = RETURN_FAIL /\ pc' = "returned"
               ELSE /\ result' = result
                    /\ pc' = (IF side = 1 THEN "run2" ELSE "diff")
            /\ exc' = exc
     \/ /\ calls' = Append(calls, Call(OutputPredicate(side),
                                       <<outputs[side].stdout>>, Raised))
        /\ exc' = Raise("Exception", 180)
        /\ pc' = "raised"
        /\ UNCHANGED <<out, result>>
  /\ UNCHANGED <<run, prev>>
  /\ UNCHANGED <<argv, fs, options, launches, outputs, metadata, difference,
                 exit_code>>

\* main() lines 235-236: difference = suppress.diff(stdout1, stdout2)
Diff ==
  /\ pc = "diff"
  /\ LET args == <<outputs[1].stdout, outputs[2].stdout>> IN
     \/ \E d \in DiffResults(outputs[1].stdout, outputs[2].stdout) :
          /\ calls' = Append(calls, Call("diff", args, d))
          /\ difference' = d
          /\ pc' = "verdict"
          /\ exc' = exc
     \/ /\ calls' = Append(calls, Call("diff", args, Raised))
        /\ exc' = Raise("Exception", 235)
        /\ pc' = "raised"
        /\ difference' = difference
  /\ UNCHANGED <<run, prev>>
  /\ UNCHANGED <<argv, fs, options, launches, outputs, metadata, out, result,
                 exit_code>>

\* '%s,%s' % (arch, config)
config_label(arch, config) == arch \o <<",">> \o config

\* The dict of main() with the first output pasted into both blocks.
FailureDict_first_output_twice(opts, meta, outs, diff) ==
  LET first_config_label == config_label(opts.first_arch, opts.first_config)
      second_config_label == config_label(opts.second_arch, opts.second_config)
  IN [configs |-> first_config_label \o <<":">> \o second_config_label,
      sources |-> join(<<",">>, [i \in DOMAIN meta.sources |->
                                   hsh(meta.sources[i])]),
      suppression |-> <<>>,
      first_config_label |-> first_config_label,
      second_config_label |-> second_config_label,
      first_config_flags |-> join(<<" ">>, config_flags(opts, 1)),
      second_config_flags |-> join(<<" ">>, config_flags(opts, 2)),
      first_config_output |-> outs[1].stdout,
      second_config_output |-> outs[1].stdout,
      difference |-> diff]

\* The dict of main() lines 243-254.
FailureDict(opts, meta, outs, diff) ==
  LET first_config_label == config_label(opts.first_arch, opts.first_config)
      second_config_label == config_label(opts.second_arch, opts.second_config)
  IN [configs |-> first_config_label \o <<":">> \o second_config_label,
      sources |-> join(<<",">>, [i \in DOMAIN meta.sources |->
                                   hsh(meta.sources[i])]),
      suppression |-> <<>>,
      first_config_label |-> first_config_label,
      second_config_label |-> second_config_label,
      first_config_flags |-> join(<<" ">>, config_flags(opts, 1)),
      second_config_flags |-> join(<<" ">>, config_flags(opts, 2)),
      first_config_output |-> outs[1].stdout,
      second_config_output |-> outs[2].stdout,
      difference |-> diff]

PassLine == << Lit("# V8 correctness - pass") >>

\* main() lines 237-262 without the return after the report: the pass line
\* follows it.
Verdict_no_return ==
  /\ pc = "verdict"
  /\ IF PyOr(difference, <<>>) # <<>>
     THEN IF "sources" \in DOMAIN metadata
          THEN /\ out' = out \o << Format(FAILURE_TEMPLATE,
                                     FailureDict(options, metadata, outputs,
                                                 difference)),
                                   PassLine >>
               /\ result' = RETURN_PASS
               /\ pc' = "returned"
               /\ exc' = exc
          ELSE /\ exc' = Raise("KeyError", 245)
               /\ pc' = "raised"
               /\ UNCHANGED <<out, result>>
     ELSE /\ out' = Append(out, PassLine)
          /\ result' = RETURN_PASS
          /\ pc' = "returned"
          /\ exc' = exc
  /\ UNCHANGED <<run, prev>>
  /\ UNCHANGED <<argv, fs, options, calls, launches, outputs, metadata,
                 difference, exit_code>>

\* main() lines 237-262 with the sources read before the difference is
\* tested.
Verdict_eager_sources ==
  /\ pc = "verdict"
  /\ IF "sources" \notin DOMAIN metadata
     THEN /\ exc' = Raise("KeyError", 245)
          /\ pc' = "raised"
          /\ UNCHANGED <<out, result>>
     ELSE IF PyOr(difference, <<>>) # <<>>
     THEN /\ out' = Append(out, Format(FAILURE_TEMPLATE,
                             FailureDict(options, metadata, outputs,
                                         difference)))
          /\ result' = RETURN_FAIL
          /\ pc' = "returned"
          /\ exc' = exc
     ELSE /\ out' = Append(out, PassLine)
          /\ result' = RETURN_PASS
          /\ pc' = "returned"
          /\ exc' = exc
  /\ UNCHANGED <<run, prev>>
  /\ UNCHANGED <<argv, fs, options, calls, launches, outputs, metadata,
                 difference, exit_code>>

\* main() lines 237-262 testing the difference against None only.
Verdict_none_only ==
  /\ pc = "verdict"
  /\ IF difference # None
     THEN IF "sources" \in DOMAIN metadata
          THEN /\ out' = Append(out, Format(FAILURE_TEMPLATE,
                                  FailureDict(options, metadata, outputs,
                                              difference)))
               /\ result' = RETURN_FAIL
               /\ pc' = "returned"
               /\ exc' = exc
          ELSE /\ exc' = Raise("KeyError", 245)
               /\ pc' = "raised"
               /\ UNCHANGED <<out, result>>
     ELSE /\ out' = Append(out, PassLine)
          /\ result' = RETURN_PASS
          /\ pc' = "returned"
          /\ exc' = exc
  /\ UNCHANGED <<run, prev>>
  /\ UNCHANGED <<argv, fs, options, calls, launches, outputs, metadata,
                 difference, exit_code>>

\* main() lines 237-262: report the difference, or pass
Verdict ==
  /\ pc = "verdict"
  /\ IF PyOr(difference, <<>>) # <<>>
     THEN IF "sources" \in DOMAIN metadata
          THEN /\ out' = Append(out, Format(FAILURE_TEMPLATE,
                                  FailureDict(options, metadata, outputs,
                                              difference)))
               /\ result' = RETURN_FAIL
               /\ pc' = "returned"
               /\ exc' = exc
          ELSE /\ exc' = Raise("KeyError", 245)
               /\ pc' = "raised"
               /\ UNCHANGED <<out, result>>
     ELSE /\ out' = Append(out, PassLine)
          /\ result' = RETURN_PASS
          /\ pc' = "returned"
          /\ exc' = exc
  /\ UNCHANGED <<run, prev>>
  /\ UNCHANGED <<argv, fs, options, calls, launches, outputs, metadata,
                 difference, exit_code>>

\* One label for every exception type.
HandlerLabel_single(type) == <<"internal_error">>

\* The label the top-level handler reports for an exception type.
HandlerLabel(type) ==
  IF type = "SystemExit" THEN <<"wrong_usage">> ELSE <<"internal_error">>

\* __main__ without the except Exception clause: the error escapes and the
\* interpreter exits with status 1.
Handler_usage_only ==
  /\ pc = "raised"
  /\ out' = IF exc.type = "SystemExit"
            THEN Append(out, FailureHeader(HandlerLabel(exc.type)))
            ELSE Append(out, << [tag |-> "traceback", val |-> str(exc.at)] >>)
  /\ result' = IF exc.type = "SystemExit" THEN RETURN_FAIL ELSE 1
  /\ pc' = "handled"
  /\ UNCHANGED <<run, prev>>
  /\ UNCHANGED <<argv, fs, options, exc, calls, launches, outputs, metadata,
                 difference, exit_code>>

\* __main__ lines 268-279: the except clauses
Handler ==
  /\ pc = "raised"
  /\ out' = IF exc.type = "SystemExit"
            THEN Append(out, FailureHeader(HandlerLabel(exc.type)))
            ELSE out \o << FailureHeader(HandlerLabel(exc.type)),
                           << Lit("# Internal error: "),
                              [tag |-> "%s", val |-> <<exc.type>>] >>,
                           << [tag |-> "traceback", val |-> str(exc.at)] >> >>
  /\ result' = RETURN_FAIL
  /\ pc' = "handled"
  /\ UNCHANGED <<run, prev>>
  /\ UNCHANGED <<argv, fs, options, exc, calls, launches, outputs, metadata,
                 difference, exit_code>>

\* __main__ line 281: sys.exit(result)
SysExit ==
  /\ pc \in {"returned", "handled"}
  /\ exit_code' = result
  /\ pc' = "exited"
  /\ UNCHANGED <<run, prev>>
  /\ UNCHANGED <<argv, fs, options, exc, calls, launches, outputs, metadata,
                 difference, out, result>>

Next ==
  \/ ParseArgs
  \/ GetSuppression
  \/ TestPatternBailout
  \/ LoadMetadata
  \/ Run(1)
  \/ PassBailout(1)
  \/ FailBailout(1)
  \/ Run(2)
  \/ PassBailout(2)
  \/ FailBailout(2)
  \/ Diff
  \/ Verdict
  \/ Handler
  \/ SysExit

Spec == Init /\ [][Next]_vars

\* ------------------------------------------------- repeated invocation
\* Command lines tried twice: one argparse rejects, and the default first
\* side against every second architecture and configuration.
ReplayArgvSet ==
  {a \in ArgvSet :
     \/ ~a.usage_ok
     \/ /\ a.random_seed = MaxSeed
        /\ a.first_arch = <<"x64">> /\ a.first_config = <<"default">>
        /\ a.first_d8 = <<"d", "8">>
        /\ a.second_d8 = <<"/", "a", "/", "d", "8">>}

ReplayInit == Init /\ argv \in ReplayArgvSet

\* __main__ lines 265-267: the script is started again with the same
\* command line; a new process starts from the module's initial state.
Reinvoke ==
  /\ pc = "exited"
  /\ run = 1
  /\ run' = 2
  /\ prev' = [fs |-> fs, calls |-> calls, launches |-> launches,
              outputs |-> outputs, metadata |-> metadata, exc |-> exc,
              out |-> out, result |-> result, exit_code |-> exit_code]
  /\ fs' = Unbound
  /\ options' = NoOptions
  /\ pc' = "start"
  /\ exc' = NoExc
  /\ calls' = <<>>
  /\ launches' = <<>>
  /\ outputs' = <<Unbound, Unbound>>
  /\ metadata' = Unbound
  /\ difference' = None
  /\ out' = <<>>
  /\ result' = NotYet
  /\ exit_code' = NotYet
  /\ UNCHANGED argv

\* The line at which the launch of a side raises.
LaunchLine(side) == IF side = 1 THEN 219 ELSE 227

\* The second invocation is answered as the first was: the same files, the
\* same result of every suppression-engine call with the same arguments,
\* the same result of every launch of the same command, the same test case
\* and metadata file contents.
EnvReplay ==
  run = 2 =>
    /\ Bound(fs) => fs = prev.fs
    /\ \A i \in DOMAIN calls : \A j \in DOMAIN prev.calls :
         (calls[i].fn = prev.calls[j].fn /\ calls[i].args = prev.calls[j].args)
           => calls[i].ret = prev.calls[j].ret
    /\ \A side \in DOMAIN launches \cap DOMAIN prev.launches :
         /\ Bound(outputs[side]) => outputs[side] = prev.outputs[side]
         /\ exc.at = LaunchLine(side) <=> prev.exc.at = LaunchLine(side)
    /\ exc.at = 156 <=> prev.exc.at = 156
    /\ Bound(metadata) => metadata = prev.metadata
    /\ exc.at \in {201, 202} => exc = prev.exc

\* A step of the program in an environment that answers as before.
Replayed(A) == A /\ EnvReplay'

TwoRunNext ==
  \/ Replayed(ParseArgs)
  \/ Replayed(GetSuppression)
  \/ Replayed(TestPatternBailout)
  \/ Replayed(LoadMetadata)
  \/ Replayed(Run(1))
  \/ Replayed(PassBailout(1))
  \/ Replayed(FailBailout(1))
  \/ Replayed(Run(2))
  \/ Replayed(PassBailout(2))
  \/ Replayed(FailBailout(2))
  \/ Replayed(Diff)
  \/ Replayed(Verdict)
  \/ Replayed(Handler)
  \/ Replayed(SysExit)
  \/ Reinvoke

\* Two invocations in a row with the same command line.
TwoRunSpec == ReplayInit /\ [][TwoRunNext]_vars

\* ------------------------------------------------------------ vocabulary
Exited == pc = "exited"

\* main() has returned a value (and the process may have exited with it).
Returned == pc \in {"returned", "exited"} /\ exc = NoExc

\* A predicate result that names a suppression: not None, not a raise, and
\* with a character that is not white space.
Matches(r) == r # None /\ r # Raised /\ \E i \in DOMAIN r : ~IsSpace(r[i])

\* The side runs completed without timeout or crash.
Normal(side) ==
  Bound(outputs[side]) /\ ~outputs[side].timed_out /\ ~outputs[side].crashed

\* ------------------------------------------------------------------- C1
\* C1: whenever the first run is reported timed out or crashed, exactly one
\* process has been launched (side 2 never is), main() goes from the side-1
\* pass bailout straight to returning RETURN_PASS, and the exit code is 0.
C1_FirstSideBailoutPasses ==
  (Bound(outputs[1]) /\ (outputs[1].timed_out \/ outputs[1].crashed))
    => /\ Len(launches) = 1
       /\ ~Bound(outputs[2])
       /\ pc \in {"pass_bailout1", "returned", "exited"}
       /\ pc \in {"returned", "exited"} => result = RETURN_PASS
       /\ Exited => exit_code = 0

C1_Witness ==
  /\ Exited
  /\ Bound(outputs[1]) /\ outputs[1].crashed /\ ~outputs[1].timed_out
  /\ exit_code = 0
  /\ Len(launches) = 1

\* ------------------------------------------------------------------- C2
\* C2: whenever suppress.ignore matched the test case source, no process
\* has been launched, the only text printed is the header-only report with
\* the trimmed reason as suppression label, main() returns RETURN_FAIL and
\* the exit code is 2.
C2_PreRunSuppression ==
  \A i \in DOMAIN calls :
    (calls[i].fn = "ignore" /\ Matches(calls[i].ret))
      => /\ launches = <<>>
         /\ out = <<FailureHeader(strip(calls[i].ret))>>
         /\ pc \in {"returned", "exited"}
         /\ result = RETURN_FAIL
         /\ Exited => exit_code = 2

C2_Witness ==
  /\ Exited
  /\ \E i \in DOMAIN calls :
       calls[i].fn = "ignore" /\ calls[i].ret = <<" ", "b", "u", "g", "\n">>
  /\ exit_code = 2
  /\ launches = <<>>

\* ------------------------------------------------------------------- C3
\* Some recorded call raised.
SomeCallRaised == \E i \in DOMAIN calls : calls[i].ret = Raised

\* The named predicate was evaluated and reported no match.
NoMatch(fn) ==
  \E i \in DOMAIN calls :
    calls[i].fn = fn /\ calls[i].ret # Raised /\ ~Matches(calls[i].ret)

SameStdout == outputs[1].stdout = outputs[2].stdout

\* C3 as stated: both sides Normal with identical stdout always exit with 0,
\* whatever the suppression predicates do.
C3_Original ==
  (Exited /\ Normal(1) /\ Normal(2) /\ SameStdout) => exit_code = RETURN_PASS

\* C3 (amended): both sides Normal with identical stdout, the side-2 output
\* predicate reporting no match and no suppression-engine call raising,
\* print the pass line only and exit with 0.
C3_IdenticalOutputsPass ==
  (Exited /\ Normal(1) /\ Normal(2) /\ SameStdout
     /\ NoMatch("ignore_by_output2") /\ ~SomeCallRaised)
    => exit_code = RETURN_PASS /\ out = <<PassLine>>

C3_Witness ==
  /\ Exited /\ Normal(1) /\ Normal(2) /\ SameStdout
  /\ \E i \in DOMAIN calls :
       calls[i].fn = "ignore_by_output2" /\ calls[i].ret = <<" ">>
  /\ ~SomeCallRaised
  /\ exit_code = 0

\* ------------------------------------------------------------------- C4
\* A printed text that starts with the failure header.
IsFailureReport(r) == Len(r) >= 2 /\ r[2] = Lit("# V8 correctness failure\n")

\* A printed text in the full form: failure header and CHECK marker.
IsFullReport(r) ==
  IsFailureReport(r) /\ \E i \in DOMAIN r : r[i] = Lit("# CHECK\n")

\* The value of the first field of a printed text with the given key.
Field(r, key) ==
  r[CHOOSE i \in DOMAIN r :
      r[i].tag = key /\ \A j \in DOMAIN r : r[j].tag = key => i <= j].val

\* C4 as stated: a failure report, or exit code 2, only after both sides
\* have been run and both outputs are present.
C4_Original ==
  (exit_code = RETURN_FAIL \/ \E i \in DOMAIN out : IsFailureReport(out[i]))
    => Len(launches) = 2 /\ Bound(outputs[1]) /\ Bound(outputs[2])

\* C4 (amended): a full-form report is printed only after both sides have
\* been run and completed Normal, and it carries both their outputs and the
\* non-empty result that suppress.diff returned for exactly these outputs.
C4_FullReportNeedsBothSides ==
  \A i \in DOMAIN out :
    IsFullReport(out[i])
      => /\ Len(launches) = 2
         /\ Normal(1) /\ Normal(2)
         /\ Field(out[i], "first_config_output") = outputs[1].stdout
         /\ Field(out[i], "second_config_output") = outputs[2].stdout
         /\ calls # <<>>
         /\ calls[Len(calls)] =
              Call("diff", <<outputs[1].stdout, outputs[2].stdout>>,
                   Field(out[i], "difference"))
         /\ Field(out[i], "difference") \notin {None, <<>>}

C4_Witness ==
  /\ Exited /\ exit_code = 2
  /\ out # <<>> /\ IsFullReport(out[1])
  /\ outputs[1].stdout # outputs[2].stdout

\* ------------------------------------------------------------------- C5
\* Some suppression predicate reported a match.
FailBailoutHappened ==
  \E i \in DOMAIN calls :
    /\ calls[i].fn \in {"ignore", "ignore_by_output1", "ignore_by_output2"}
    /\ Matches(calls[i].ret)

\* suppress.diff returned a non-empty difference.
DifferenceFound ==
  \E i \in DOMAIN calls :
    calls[i].fn = "diff" /\ calls[i].ret \notin {None, <<>>, Raised}

\* Some side that was run timed out or crashed.
TimeoutOrCrash ==
  \E side \in {1, 2} :
    Bound(outputs[side]) /\ (outputs[side].timed_out \/ outputs[side].crashed)

\* suppress.diff returned None or an empty difference.
NoDifference ==
  \E i \in DOMAIN calls : calls[i].fn = "diff" /\ calls[i].ret \in {None, <<>>}

\* The statements of the program in the order control passes through them.
PcOrder ==
  <<"start", "get_suppression", "test_pattern_bailout", "load_metadata",
    "run1", "pass_bailout1", "fail_bailout1", "run2", "pass_bailout2",
    "fail_bailout2", "diff", "verdict", "raised", "returned", "handled",
    "exited">>

\* Position of a statement in PcOrder.
Rank(p) == CHOOSE i \in DOMAIN PcOrder : PcOrder[i] = p

\* C5: every run exits (each step moves strictly forward through the
\* finitely many statements, parse_args can always run, and after it a step
\* is possible until the process has exited), with 0 or 2 only; with 0
\* exactly for a pass (a timeout or crash of a side, or an empty diff), and
\* with 2 exactly for a usage or internal error, a fail bailout or a
\* difference.
C5_ExitCodes ==
  /\ [][Rank(pc') > Rank(pc)]_vars
  /\ [](pc = "start" => FsFor(argv) # {})
  /\ [](pc \notin {"start", "exited"} => ENABLED Next)
  /\ [](Exited =>
          /\ exit_code \in {RETURN_PASS, RETURN_FAIL}
          /\ exit_code = RETURN_PASS
               <=> (exc = NoExc /\ (TimeoutOrCrash \/ NoDifference))
          /\ exit_code = RETURN_FAIL
               <=> (exc # NoExc \/ FailBailoutHappened \/ DifferenceFound))

C5_Witness ==
  Exited /\ exc.type = "KeyError" /\ exit_code = 2 /\ Len(launches) = 2

\* ------------------------------------------------------------------- C6
\* parse_args raised: no options were returned to main().
Rejected ==
  /\ exc # NoExc /\ exc.at <= 149
  /\ ~Bound(options)
  /\ pc \in {"raised", "handled", "exited"}
  /\ calls = <<>>
  /\ launches = <<>>
  /\ Exited => exit_code = 2

SamePair ==
  argv.first_arch = argv.second_arch /\ argv.first_config = argv.second_config

\* C6: a command line whose two architectures are equal and whose two
\* configurations are equal is rejected by parse_args (at the assert of
\* line 107 when argparse accepted it): the suppression engine is not
\* consulted, nothing is launched, and the exit code is 2.
C6_IdenticalPairRejected ==
  (pc # "start" /\ SamePair)
    => /\ Rejected
       /\ argv.usage_ok => exc = Raise("AssertionError", 107)

C6_Witness ==
  /\ Exited /\ argv = DefaultArgv /\ exit_code = 2
  /\ exc = Raise("AssertionError", 107)

\* ------------------------------------------------------------------- C7
\* The two executables are the same file after defaulting and absolutizing.
SameExecutable ==
  abspath(PyOr(argv.second_d8, argv.first_d8)) = abspath(argv.first_d8)

\* C7: a command line whose architectures differ and whose executables are
\* the same path after defaulting and absolutizing is rejected, and so is
\* every command line with differing architectures and no second executable.
C7_SameExecutableRejected ==
  (pc # "start" /\ argv.first_arch # argv.second_arch
     /\ (SameExecutable \/ argv.second_d8 = None))
    => Rejected

\* Reached with a relative first path and its absolute spelling as second.
C7_Witness ==
  /\ Exited /\ exit_code = 2
  /\ exc = Raise("AssertionError", 149)
  /\ argv.first_d8 = <<"d", "8">>
  /\ argv.second_d8 = <<"/", "w", "/", "d", "8">>

\* ------------------------------------------------------------------- C8
\* Index of the first token of a printed text with the given field key.
PosTag(r, key) ==
  CHOOSE i \in DOMAIN r :
    r[i].tag = key /\ \A j \in DOMAIN r : r[j].tag = key => i <= j

\* Indices of the tokens of a printed text that are the given literal.
PosLit(r, t) == {i \in DOMAIN r : r[i] = Lit(t)}

Min(S) == CHOOSE i \in S : \A j \in S : i <= j

Max(S) == CHOOSE i \in S : \A j \in S : i >= j

ExecutableOf(side) ==
  IF side = 1 THEN options.first_d8 ELSE options.second_d8

\* The command the claim describes for a side.
ExpectedCommand(side) ==
  <<ExecutableOf(side)>>
  \o FLAGS
  \o << <<"--random-seed">>, str(argv.random_seed) >>
  \o CONFIGS[(IF side = 1 THEN argv.first_config ELSE argv.second_config)[1]]
  \o PREAMBLE
  \o <<argv.testcase>>

\* The argument that follows '--random-seed' in a command.
SeedOf(args) ==
  args[1 + CHOOSE i \in DOMAIN args : args[i] = <<"--random-seed">>]

\* C9 as stated: every command is the executable path first, then the fixed
\* flags, the seed, the registry flags, the preamble and the test case.
C9_Original ==
  \A i \in DOMAIN launches : launches[i].args = ExpectedCommand(i)

\* C9 (amended): every command is the executable path, the fixed flags,
\* '--random-seed' and the seed, the registry flags in registry order, the
\* preamble scripts and the test case last, preceded by the Python
\* interpreter when the executable path ends in '.py'; both sides carry the
\* same seed.
C9_Command ==
  /\ \A i \in DOMAIN launches :
       launches[i].args =
         IF endswith(ExecutableOf(i), <<".", "p", "y">>)
         THEN <<SysExecutable>> \o ExpectedCommand(i)
         ELSE ExpectedCommand(i)
  /\ Len(launches) = 2
       => SeedOf(launches[1].args) = SeedOf(launches[2].args)

C9_Witness ==
  /\ Len(launches) = 2
  /\ launches[1].args[1] = SysExecutable
  /\ launches[2].args[1] = <<"/", "a", "/", "d", "8">>
  /\ Head(SeedOf(launches[2].args)) = "-"
  /\ argv.second_config = <<"fullcode">>

\* ------------------------------------------------------------------ C10
\* The command line breaks a rule of parse_args.
InvalidArgv ==
  \/ ~argv.usage_ok
  \/ SamePair
  \/ {argv.first_arch, argv.second_arch}
       \ { <<"ia32">>, <<"x64">>, <<"arm">>, <<"arm64">> } # {}
  \/ argv.first_config[1] \notin DOMAIN CONFIGS
  \/ argv.second_config[1] \notin DOMAIN CONFIGS
  \/ argv.first_arch # argv.second_arch /\ SameExecutable

\* A file parse_args needs is missing or malformed.
InvalidFs ==
  \/ ~fs.testcase_isfile
  \/ ~fs.resources_exists
  \/ Len(fs.resources) # 1
  \/ ~fs.metadata_exists
  \/ ~fs.first_d8_exists
  \/ ~fs.second_d8_exists

\* C10: once parse_args has run, every usage or validation error (a
\* rejected command line, an identical pair, an unknown architecture or
\* configuration, a missing test case, resources file, metadata file or
\* executable, a malformed resources file, an executable shared by two
\* architectures) has been raised by it: the suppression engine was not
\* consulted, nothing was launched, no diff was computed, the exit code is
\* 2; and parse_args raises in no other case.
C10_ValidationFirst ==
  pc # "start"
    => /\ (InvalidArgv \/ InvalidFs)
            => Rejected /\ difference = None
       /\ ~(InvalidArgv \/ InvalidFs) => (Bound(options) /\ ~Rejected)

C10_Witness ==
  /\ Exited /\ exit_code = 2
  /\ exc = Raise("AssertionError", 131)
  /\ ~fs.metadata_exists
  /\ calls = <<>> /\ launches = <<>>

\* ------------------------------------------------------------------ C11
\* The printed texts that start with the failure header.
FailureReports == {i \in DOMAIN out : IsFailureReport(out[i])}

DiffCalled == \E i \in DOMAIN calls : calls[i].fn = "diff"

\* The result suppress.diff returned (None when it was not called).
DiffReturned ==
  IF DiffCalled
  THEN calls[CHOOSE i \in DOMAIN calls : calls[i].fn = "diff"].ret
  ELSE None

\* An element of a command.
InCommand(x, args) == \E i \in DOMAIN args : args[i] = x

\* The registry flags of a side's configuration.
RegistryFlags(side) ==
  CONFIGS[(IF side = 1 THEN argv.first_config ELSE argv.second_config)[1]]

\* The command carries the side's executable, and the side's registry
\* flags and the preamble right before the test case.
CommandOfSide(args, side) ==
  /\ InCommand(ExecutableOf(side), args)
  /\ SubSeq(args, Len(args) - 2 - Len(RegistryFlags(side)), Len(args) - 1)
       = RegistryFlags(side) \o PREAMBLE

\* Each side was launched once, side 1 first.
BothLaunchedInOrder ==
  /\ Len(launches) = 2
  /\ CommandOfSide(launches[1].args, 1)
  /\ CommandOfSide(launches[2].args, 2)

\* What holds whenever diff was called or a full-form report printed.
DiffPrecondition ==
  /\ BothLaunchedInOrder
  /\ Normal(1) /\ Normal(2)
  /\ NoMatch("ignore_by_output1") /\ NoMatch("ignore_by_output2")
  /\ ~\E i \in DOMAIN calls :
        calls[i].fn \in {"ignore_by_output1", "ignore_by_output2"}
          /\ (Matches(calls[i].ret) \/ calls[i].ret = Raised)

\* C13 as stated: a non-empty diff result always ends in the full-form
\* report and exit code 2, an empty one in the pass line and exit code 0.
C13_Original ==
  /\ (DiffCalled \/ \E i \in DOMAIN out : IsFullReport(out[i]))
       => DiffPrecondition
  /\ (Exited /\ DiffCalled /\ DiffReturned # Raised)
       => IF DiffReturned \notin {None, <<>>}
          THEN exit_code = 2 /\ Len(out) = 1 /\ IsFullReport(out[1])
          ELSE exit_code = 0 /\ out = <<PassLine>>

\* C13 (amended): diff is called, and a full-form report printed, only
\* after side 1 and then side 2 were launched once each, both Normal and
\* neither matched by its output predicate; a non-empty diff result then
\* ends in exit code 2, with the full-form report when the metadata has a
\* 'sources' field and with the internal_error report when it has not; a
\* null or empty result ends in the pass line and exit code 0.
C13_DiffVerdict ==
  /\ (DiffCalled \/ \E i \in DOMAIN out : IsFullReport(out[i]))
       => DiffPrecondition
  /\ (Exited /\ DiffCalled /\ DiffReturned # Raised)
       => IF DiffReturned \notin {None, <<>>}
          THEN /\ exit_code = 2
               /\ IF "sources" \in DOMAIN metadata
                  THEN /\ Len(out) = 1 /\ IsFullReport(out[1])
                       /\ Field(out[1], "difference") = DiffReturned
                  ELSE /\ exc = Raise("KeyError", 245)
                       /\ out[1] = FailureHeader(<<"internal_error">>)
          ELSE exit_code = 0 /\ out = <<PassLine>>

C13_Witness ==
  /\ Exited /\ DiffCalled
  /\ DiffReturned = <<"line 1 differs">>
  /\ "sources" \notin DOMAIN metadata
  /\ exit_code = 2

\* ------------------------------------------------------------------ C14
\* Statements that come after the second launch.
AfterRun2 == {"pass_bailout2", "fail_bailout2", "diff", "verdict"}

\* C14: at most two processes are launched, side 1 then side 2; the second
\* is launched only with side 1 returned, Normal and reported unmatched by
\* ignore_by_output1 after an unmatched pre-run check, and it is launched in
\* every run that gets that far: a run that has left the side-1 checks with
\* no match and no error has launched it.
C14_SecondLaunch ==
  /\ Len(launches) <= 2
  /\ Len(launches) = 2
       => /\ BothLaunchedInOrder
          /\ Normal(1)
          /\ NoMatch("ignore") /\ NoMatch("ignore_by_output1")
  /\ ~Bound(outputs[1]) => ~Bound(outputs[2])
  /\ (Normal(1) /\ NoMatch("ignore_by_output1")
        /\ pc \notin {"fail_bailout1", "run2"})
       => Len(launches) = 2
  /\ (Exited /\ Len(launches) < 2)
       => \/ exc # NoExc
          \/ FailBailoutHappened
          \/ Bound(outputs[1]) /\ ~Normal(1)

C14_Witness ==
  /\ pc = "pass_bailout2"
  /\ Len(launches) = 2
  /\ \E i \in DOMAIN calls :
       calls[i].fn = "ignore_by_output1" /\ calls[i].ret = None

\* ------------------------------------------------------------------ C15
\* The marker line of a timeout or crash at a step.
TimeoutMarker(step) ==
  << Lit("# V8 correctness - T-I-M-E-O-U-T "),
     [tag |-> "%d", val |-> IF step = 1 THEN <<"1">> ELSE <<"2">>] >>

CrashMarker(step) ==
  << Lit("# V8 correctness - C-R-A-S-H "),
     [tag |-> "%d", val |-> IF step = 1 THEN <<"1">> ELSE <<"2">>] >>

\* The output predicate of a side was called.
PredicateCalled(side) ==
  \E i \in DOMAIN calls :
    calls[i].fn = (IF side = 1 THEN "ignore_by_output1" ELSE "ignore_by_output2")

\* C15: the output predicate of a side is called only for a Normal run; a
\* run that timed out or crashed never has its predicate evaluated nor diff
\* called, and ends in RETURN_PASS with one marker carrying the side's step
\* number: the timeout marker when it timed out (crashed or not), the crash
\* marker otherwise.
C15_PassBailoutFirst ==
  \A side \in {1, 2} :
    /\ PredicateCalled(side) => Normal(side)
    /\ (Bound(outputs[side])
          /\ (outputs[side].timed_out \/ outputs[side].crashed))
         => /\ ~PredicateCalled(side)
            /\ ~DiffCalled
            /\ pc \in {"pass_bailout1", "pass_bailout2", "returned", "exited"}
            /\ pc \in {"returned", "exited"}
                 => /\ result = RETURN_PASS
                    /\ out = << IF outputs[side].timed_out
                                THEN TimeoutMarker(side)
                                ELSE CrashMarker(side) >>
            /\ Exited => exit_code = 0

C15_Witness ==
  /\ Exited /\ exit_code = 0
  /\ Bound(outputs[2]) /\ outputs[2].timed_out /\ outputs[2].crashed
  /\ out = <<TimeoutMarker(2)>>

\* ------------------------------------------------------------------ C16
\* The calls of a given function.
CallsOf(fn) == {i \in DOMAIN calls : calls[i].fn = fn}

\* C16: ignore_by_output1 is called at most once, with side 1's stdout;
\* ignore_by_output2 at most once, with side 2's stdout, after a Normal and
\* unmatched side 1; a timed-out or crashed side 2 ends in RETURN_PASS and a
\* side 2 matched by ignore_by_output2 in the header-only report with the
\* trimmed label and RETURN_FAIL, both without diff being called.
C16_SecondSideClassified ==
  /\ Cardinality(CallsOf("ignore_by_output1")) <= 1
  /\ Cardinality(CallsOf("ignore_by_output2")) <= 1
  /\ \A i \in CallsOf("ignore_by_output1") :
       i = 3 /\ calls[i].args = <<outputs[1].stdout>>
  /\ \A i \in CallsOf("ignore_by_output2") :
       /\ i = 4 /\ calls[i].args = <<outputs[2].stdout>>
       /\ Normal(1) /\ Normal(2) /\ NoMatch("ignore_by_output1")
       /\ Matches(calls[i].ret)
            => /\ ~DiffCalled
               /\ out = <<FailureHeader(strip(calls[i].ret))>>
               /\ pc \in {"returned", "exited"}
               /\ result = RETURN_FAIL
               /\ Exited => exit_code = 2
  /\ (Bound(outputs[2]) /\ (outputs[2].timed_out \/ outputs[2].crashed))
       => /\ Normal(1) /\ NoMatch("ignore_by_output1")
          /\ ~DiffCalled
          /\ pc \in {"returned", "exited"} => result = RETURN_PASS
          /\ Exited => exit_code = 0

C16_Witness ==
  /\ Exited /\ exit_code = 2
  /\ Bound(outputs[1]) /\ Bound(outputs[2])
  /\ outputs[1].stdout # outputs[2].stdout
  /\ \E i \in CallsOf("ignore_by_output2") :
       calls[i].ret = <<"b", "u", "g">>
  /\ \E i \in CallsOf("ignore_by_output1") : calls[i].ret = <<" ">>

\* ------------------------------------------------------------------ C17
IsMarker(r) ==
  \E step \in {1, 2} : r = TimeoutMarker(step) \/ r = CrashMarker(step)

\* A printed text that states a verdict.
IsVerdictOutput(r) == r = PassLine \/ IsMarker(r) \/ IsFailureReport(r)

VerdictOutputs == {i \in DOMAIN out : IsVerdictOutput(out[i])}

IsHeaderOnly(r) ==
  IsFailureReport(r) /\ Len(r) = Len(FAILURE_HEADER_TEMPLATE) /\ ~IsFullReport(r)

\* C17: at most one verdict output is ever printed, and a run that has
\* exited printed exactly one, first: a header-only report for a fail
\* bailout or an error, a full-form report exactly for a difference that
\* was reported without error, else the pass line or a marker; and a failure
\* header was printed exactly when the exit code is 2.
C17_OneVerdictOutput ==
  /\ Cardinality(VerdictOutputs) <= 1
  /\ Exited
       => /\ VerdictOutputs = {1}
          /\ (FailBailoutHappened \/ exc # NoExc) => IsHeaderOnly(out[1])
          /\ IsFullReport(out[1]) <=> (DifferenceFound /\ exc = NoExc)
          /\ IsFailureReport(out[1])
               => (IsHeaderOnly(out[1]) \/ IsFullReport(out[1]))
          /\ IsFailureReport(out[1]) <=> exit_code = 2
          /\ (out[1] = PassLine \/ IsMarker(out[1])) <=> exit_code = 0

C17_Witness ==
  /\ Exited /\ exit_code = 0
  /\ out = <<CrashMarker(1)>>

\* ------------------------------------------------------------------ C18
\* A predicate result that is None, empty or white space only.
Blank(r) == r = None \/ (r # Raised /\ \A i \in DOMAIN r : IsSpace(r[i]))

\* The statement main() continues with after a predicate found no match.
NextStage(fn) ==
  IF fn = "ignore" THEN "load_metadata"
  ELSE IF fn = "ignore_by_output1" THEN "run2" ELSE "diff"

\* C18: a step in which a suppression predicate returns None, an empty or
\* a blank string prints nothing and continues with the next stage; every
\* header-only report has empty configs and sources and a non-empty label
\* without surrounding white space; every full-form report has an empty
\* label and non-empty configs.
C18_BlankIsNoMatch ==
  /\ [][(Len(calls') = Len(calls) + 1
           /\ calls'[Len(calls')].fn
                \in {"ignore", "ignore_by_output1", "ignore_by_output2"}
           /\ Blank(calls'[Len(calls')].ret))
          => /\ pc' = NextStage(calls'[Len(calls')].fn)
             /\ out' = out /\ result' = result /\ exc' = exc]_vars
  /\ [](\A i \in DOMAIN out :
          IsFailureReport(out[i]) =>
            IF IsFullReport(out[i])
            THEN /\ Field(out[i], "suppression") = <<>>
                 /\ Field(out[i], "configs") # <<>>
            ELSE LET label == Field(out[i], "suppression") IN
                   /\ label # <<>>
                   /\ ~IsSpace(label[1]) /\ ~IsSpace(label[Len(label)])
                   /\ Field(out[i], "configs") = <<>>
                   /\ Field(out[i], "sources") = <<>>)

C18_Witness ==
  /\ Exited
  /\ \E i \in CallsOf("ignore") : calls[i].ret = <<" ">>
  /\ \E i \in CallsOf("ignore_by_output1") : calls[i].ret = <<>>
  /\ \E i \in CallsOf("ignore_by_output2") : calls[i].ret = None
  /\ out # <<>> /\ IsFullReport(out[1])

\* ------------------------------------------------------------------ C19
MetadataLacksSources == Bound(metadata) /\ "sources" \notin DOMAIN metadata

\* C19: the metadata is loaded only after an unmatched pre-run check and
\* before any launch; a pre-run match ends in its bailout with the metadata
\* never opened; a metadata file that cannot be loaded ends in the
\* internal_error report with no launch; metadata without 'sources' raises
\* (KeyError, internal_error report, both processes run) exactly when a
\* non-empty difference was found, and otherwise the exit code is that of
\* the bailouts and the diff alone.
C19_MetadataLoad ==
  /\ Bound(metadata) => NoMatch("ignore")
  /\ launches # <<>> => Bound(metadata)
  /\ (\E i \in CallsOf("ignore") : Matches(calls[i].ret))
       => /\ ~Bound(metadata) /\ exc = NoExc
          /\ pc \in {"returned", "exited"} /\ result = RETURN_FAIL
  /\ exc \in {Raise("IOError", 201), Raise("ValueError", 202)}
       => /\ ~Bound(metadata) /\ launches = <<>> /\ NoMatch("ignore")
          /\ pc \in {"handled", "exited"}
               => out[1] = FailureHeader(<<"internal_error">>)
          /\ Exited => exit_code = 2
  /\ exc.type = "KeyError"
       <=> (MetadataLacksSources /\ DifferenceFound
              /\ pc \in {"raised", "handled", "exited"})
  /\ exc.type = "KeyError"
       => /\ Len(launches) = 2 /\ Normal(1) /\ Normal(2)
          /\ pc \in {"handled", "exited"}
               => out[1] = FailureHeader(<<"internal_error">>)
          /\ Exited => exit_code = 2
  /\ (Exited /\ MetadataLacksSources /\ ~DifferenceFound /\ ~SomeCallRaised
        /\ exc.at \notin {219, 227})
       => /\ exc = NoExc
          /\ exit_code = IF FailBailoutHappened THEN 2 ELSE 0

\* Reached with a metadata file that is not JSON.
C19_Witness ==
  /\ Exited /\ exit_code = 2
  /\ exc = Raise("ValueError", 202)
  /\ launches = <<>>
  /\ \E i \in CallsOf("ignore") : Blank(calls[i].ret)

====
